---- MODULE Spec2Model ----
(***************************************************************************)
(* GameClient (src/game.js): a browser client that mirrors a server's      *)
(* world state over one WebSocket, turns arrow keys into move / stop       *)
(* commands with a debounced repeat, and keeps a viewport centred on the   *)
(* local player.  Every event handler runs to completion, so each handler  *)
(* is one action.                                                          *)
(*                                                                         *)
(* Conventions.                                                            *)
(*  - A JavaScript Map is a sequence of entries [key, val] in insertion    *)
(*    order (Map iteration order).                                         *)
(*  - A JavaScript object with optional fields (a player record, an        *)
(*    outbound message) is a function whose DOMAIN is the fields present.  *)
(*  - A JavaScript number that may be NaN is a sequence: <<n>> is the      *)
(*    number n and <<>> is NaN (what arithmetic on undefined gives).       *)
(*  - Timers are ideal: a timer fires when its delay has elapsed, before   *)
(*    time moves on.  Time advances in steps of TimeStep.                  *)
(*  - sent, ev, hold, merged, discarded and errorOrClose are history       *)
(*    variables: the messages handed to socket.send by the last handler,   *)
(*    the last event, the bookkeeping of a single-key hold, the per-field  *)
(*    merge of the player updates received, whether a malformed payload    *)
(*    has been discarded and whether an error or close event has been      *)
(*    delivered.                                                           *)
(*  - An image is [src, complete]: complete turns TRUE when the browser    *)
(*    has loaded it.  drawn is the history of the frames the last handler  *)
(*    put on the canvas, one per call of render; loaded the avatar names   *)
(*    for which the last handler created new images; joinedOK whether a    *)
(*    join_game response with success = true has been handled, to the end  *)
(*    or not (a message event whose handler threw has the key              *)
(*    "handler_error"); outbound counts the                                *)
(*    open events and join_game messages so far (saturating at 2) and      *)
(*    keeps the action of the first message ever sent and whether a move   *)
(*    has been sent since the last stop (or the open event).  prevTick is  *)
(*    the position the local player had when the last tick ended (<<>>    *)
(*    if it was absent) and idle counts the ticks that found particles     *)
(*    and spawned none.                                                    *)
(***************************************************************************)
EXTENDS Integers, Sequences, FiniteSets, TLC

VARIABLES
    chan,              \* the WebSocket: "connecting", "open" or "closed"
    isConnected,       \* this.isConnected
    myPlayerId,        \* this.myPlayerId (Null until a join succeeds)
    players,           \* this.players: Map id -> player data
    avatars,           \* this.avatars: Map name -> avatar data
    avatarImages,      \* this.avatarImages: Map name -> image arrays
    viewport,          \* this.viewport
    keyState,          \* this.keyState
    movementInterval,  \* this.movementInterval (timer id, 0 = null)
    movementTimeout,   \* this.movementTimeout (timer id, 0 = null)
    timers,            \* the browser's active timers
    hoveredPlayer,     \* this.hoveredPlayer (<<>> = null)
    followingPlayer,   \* this.followingPlayer (Null = null)
    mouse,             \* history: the last pointer position, <<>> before any
    particles,         \* this.particles
    lastPlayerPosition,\* this.lastPlayerPosition (<<>> = undefined)
    showSettings,      \* this.showSettings
    showPlayerList,    \* this.showPlayerList
    sent,              \* history: messages sent by the last handler
    ev,                \* history: the last event handled
    hold,              \* history: the single-key hold in progress
    merged,            \* history: per-field merge of player updates
    discarded,         \* history: a malformed payload has been discarded
    errorOrClose,      \* history: an error or close event was delivered
    loopAlive,         \* the game loop still reschedules itself
    prevTick,          \* history: the local player's position at the last tick
    idle,              \* history: ticks that aged particles and spawned none
    drawn,             \* history: frames rendered by the last handler
    loaded,            \* history: avatar names loaded by the last handler
    joinedOK,          \* history: a successful join has been handled
    outbound           \* history: opens, joins and first message sent

conn == <<chan, isConnected, errorOrClose>>
world == <<myPlayerId, players, avatars, avatarImages, merged, discarded, joinedOK>>
input == <<keyState, movementInterval, movementTimeout, timers, hold>>
pointer == <<hoveredPlayer, followingPlayer, mouse>>
frame == <<particles, lastPlayerPosition, loopAlive, prevTick, idle>>
panels == <<showSettings, showPlayerList>>
vars == <<conn, world, viewport, input, pointer, frame, panels, sent, ev, drawn, loaded,
          outbound>>

----------------------------------------------------------------------------
(* Bounds of the model *)

MaxTimers == 4       \* timer ids are drawn from 1..MaxTimers
MaxElapsed == 6      \* a hold is timed for at most MaxElapsed time steps
MaxIdleTicks == 1    \* at most MaxIdleTicks ticks age particles and spawn none

(* Program constants *)

worldSize == 2048
DebounceDelay == 200
RepeatInterval == 100
InteractionRadius == 50
ParticleLife == 30

TimeStep == RepeatInterval

Null == "null"
Keys == {"up", "down", "left", "right"}
ArrowCodes == {"ArrowUp", "ArrowDown", "ArrowLeft", "ArrowRight"}

----------------------------------------------------------------------------
(* JavaScript values *)

Num(n) == <<n>>
NaN == <<>>
IsNum(v) == Len(v) = 1
Val(v) == v[1]

Min(a, b) == IF a < b THEN a ELSE b
Max(a, b) == IF a > b THEN a ELSE b

\* Math.min / Math.max: NaN if an argument is NaN
MathMin(a, b) == IF IsNum(a) /\ IsNum(b) THEN Num(Min(Val(a), Val(b))) ELSE NaN
MathMax(a, b) == IF IsNum(a) /\ IsNum(b) THEN Num(Max(Val(a), Val(b))) ELSE NaN
Minus(a, b) == IF IsNum(a) /\ IsNum(b) THEN Num(Val(a) - Val(b)) ELSE NaN
Plus(a, b) == IF IsNum(a) /\ IsNum(b) THEN Num(Val(a) + Val(b)) ELSE NaN

\* obj.f as a number: NaN-propagating when the field is absent (undefined)
Field(obj, f) == IF f \in DOMAIN obj THEN Num(obj[f]) ELSE NaN

\* Map operations
MapHas(m, k) == \E i \in 1..Len(m) : m[i].key = k
MapGet(m, k) == m[CHOOSE i \in 1..Len(m) : m[i].key = k].val
MapSet(m, k, v) ==
    IF MapHas(m, k)
    THEN [i \in 1..Len(m) |-> IF m[i].key = k THEN [key |-> k, val |-> v] ELSE m[i]]
    ELSE Append(m, [key |-> k, val |-> v])
MapDelete(m, k) ==
    LET keep(e) == e.key # k IN SelectSeq(m, keep)

Truthy(id) == id # Null

Ev(t, k, f) == [type |-> t, key |-> k, flag |-> f]

----------------------------------------------------------------------------
(* Outbound commands *)

JoinMessage == [action |-> "join_game", username |-> "Abdoulaye"]

\* joinGame
joinGame(connected) ==
    IF ~connected THEN <<>> ELSE <<JoinMessage>>

\* sendMoveCommand without its isConnected check
sendMoveCommandUnguarded(connected, direction) ==
    IF "direction" \in DOMAIN direction
    THEN <<[action |-> "move", direction |-> direction.direction]>>
    ELSE IF "x" \in DOMAIN direction /\ "y" \in DOMAIN direction
         THEN <<[action |-> "move", x |-> direction.x, y |-> direction.y]>>
         ELSE <<>>

\* sendMoveCommand: direction is [direction |-> d] (a string argument) or an
\* object [x |-> .., y |-> ..]
sendMoveCommand(connected, direction) ==
    IF ~connected THEN <<>>
    ELSE IF "direction" \in DOMAIN direction
         THEN <<[action |-> "move", direction |-> direction.direction]>>
         ELSE IF "x" \in DOMAIN direction /\ "y" \in DOMAIN direction
              THEN <<[action |-> "move", x |-> direction.x, y |-> direction.y]>>
              ELSE <<>>

\* sendStopCommand without its isConnected check
sendStopCommandUnguarded(connected) == <<[action |-> "stop"]>>

\* sendStopCommand
sendStopCommand(connected) ==
    IF ~connected THEN <<>> ELSE <<[action |-> "stop"]>>

\* sendMoveCommandForActiveKeys with the priority reversed
sendMoveCommandForActiveKeysReversed(connected, ks) ==
    IF ks["right"] THEN sendMoveCommand(connected, [direction |-> "right"])
    ELSE IF ks["left"] THEN sendMoveCommand(connected, [direction |-> "left"])
    ELSE IF ks["down"] THEN sendMoveCommand(connected, [direction |-> "down"])
    ELSE IF ks["up"] THEN sendMoveCommand(connected, [direction |-> "up"])
    ELSE <<>>

\* sendMoveCommandForActiveKeys: priority up > down > left > right
sendMoveCommandForActiveKeys(connected, ks) ==
    IF ks["up"] THEN sendMoveCommand(connected, [direction |-> "up"])
    ELSE IF ks["down"] THEN sendMoveCommand(connected, [direction |-> "down"])
    ELSE IF ks["left"] THEN sendMoveCommand(connected, [direction |-> "left"])
    ELSE IF ks["right"] THEN sendMoveCommand(connected, [direction |-> "right"])
    ELSE <<>>

IsDirMove(m) == m.action = "move" /\ "direction" \in DOMAIN m
IsStop(m) == m.action = "stop"
NumDirMoves(out) == Cardinality({i \in 1..Len(out) : IsDirMove(out[i])})
NumStops(out) == Cardinality({i \in 1..Len(out) : IsStop(out[i])})

----------------------------------------------------------------------------
(* Timers: setTimeout / setInterval / clearTimeout / clearInterval *)

TimerIds(ts) == {t.id : t \in ts}

\* a timer id the browser has not handed out among the ids still known
HasFreshId(ts, mi, mt) == \E i \in 1..MaxTimers : i \notin TimerIds(ts) \cup {mi, mt}
FreshId(ts, mi, mt) ==
    CHOOSE i \in 1..MaxTimers :
        /\ i \notin TimerIds(ts) \cup {mi, mt}
        /\ \A j \in 1..MaxTimers : j \notin TimerIds(ts) \cup {mi, mt} => i <= j

\* clearTimeout(id) / clearInterval(id): a no-op on an id that is not active
ClearTimer(ts, id) == {t \in ts : t.id # id}

anyKeyPressed(ks) == ks["up"] \/ ks["down"] \/ ks["left"] \/ ks["right"]

\* startContinuousMovement that forgets to clear the running interval
startContinuousMovementNoClear(ts, mi, mt) ==
    LET t1 == IF mt # 0 THEN ClearTimer(ts, mt) ELSE ts
        id == FreshId(t1, mi, 0)
    IN  [timers |-> t1 \cup {[id |-> id, kind |-> "timeout", remaining |-> DebounceDelay]},
         movementInterval |-> mi,
         movementTimeout |-> id]

\* startContinuousMovement that starts the repeat interval at once, with no
\* debounce timeout
startContinuousMovementNoDebounce(ts, mi, mt) ==
    LET t1 == IF mi # 0 THEN ClearTimer(ts, mi) ELSE ts
        t2 == IF mt # 0 THEN ClearTimer(t1, mt) ELSE t1
        id == FreshId(t2, 0, mt)
    IN  [timers |-> t2 \cup {[id |-> id, kind |-> "interval", remaining |-> RepeatInterval]},
         movementInterval |-> id,
         movementTimeout |-> mt]

\* startContinuousMovement: clear both timers, arm the debounce timeout
startContinuousMovement(ts, mi, mt) ==
    LET t1 == IF mi # 0 THEN ClearTimer(ts, mi) ELSE ts
        t2 == IF mt # 0 THEN ClearTimer(t1, mt) ELSE t1
        id == FreshId(t2, mi, 0)
    IN  [timers |-> t2 \cup {[id |-> id, kind |-> "timeout", remaining |-> DebounceDelay]},
         movementInterval |-> mi,
         movementTimeout |-> id]

\* stopContinuousMovement that leaves the debounce timeout pending
stopContinuousMovementKeepsTimeout(ts, mi, mt) ==
    LET t1 == IF mi # 0 THEN ClearTimer(ts, mi) ELSE ts
    IN  [timers |-> t1, movementInterval |-> 0, movementTimeout |-> mt]

\* stopContinuousMovement: clear and null both timers (the stop command is
\* sent by the caller's action through sendStopCommand)
stopContinuousMovement(ts, mi, mt) ==
    LET t1 == IF mi # 0 THEN ClearTimer(ts, mi) ELSE ts
        t2 == IF mt # 0 THEN ClearTimer(t1, mt) ELSE t1
    IN  [timers |-> t2, movementInterval |-> 0, movementTimeout |-> 0]

----------------------------------------------------------------------------
(* History of a single-key hold *)

Idle == [phase |-> "idle", elapsed |-> 0, moves |-> 0, late |-> 0]
Pressed(ks) == {k \in Keys : ks[k]}

\* phase "holding": one key went down with no other key pressed, and no other
\*   key-down, no key-up and no close event has happened since; elapsed is
\*   the time since the key-down and moves the direction moves sent since
\*   (that of the key-down included).
\* phase "released": the state right after the release of that key; elapsed
\*   and moves are those of the hold that ended.
\* phase "after": later states, until the next effective key-down.
\* late counts the direction moves sent since the release (its own handler
\*   included).
NextHold(h, e, ks2, out) ==
    LET base == IF h.phase = "released"
                THEN [h EXCEPT !.phase = "after", !.elapsed = 0, !.moves = 0]
                ELSE h
        counted == CASE base.phase = "holding" ->
                            [base EXCEPT !.moves = @ + NumDirMoves(out)]
                     [] base.phase = "after" ->
                            [base EXCEPT !.late = Min(1, @ + NumDirMoves(out))]
                     [] OTHER -> base
    IN  CASE e.type = "keydown" /\ e.flag ->
                IF Cardinality(Pressed(ks2)) = 1
                THEN [phase |-> "holding", elapsed |-> 0, moves |-> NumDirMoves(out),
                      late |-> 0]
                ELSE Idle
          [] e.type = "keyup" /\ e.key # "none" ->
                IF h.phase = "holding"
                THEN IF Pressed(ks2) = {}
                     THEN [h EXCEPT !.phase = "released", !.late = NumDirMoves(out)]
                     ELSE Idle
                ELSE counted
          [] e.type = "advance" ->
                IF h.phase = "holding" THEN [h EXCEPT !.elapsed = @ + TimeStep] ELSE base
          [] e.type = "close" ->
                IF h.phase = "holding" THEN Idle ELSE base
          [] OTHER -> counted

----------------------------------------------------------------------------
(* World state: the handlers of inbound messages.  st is the record        *)
(* [myPlayerId, players, avatars, avatarImages, viewport, drawn, loaded,   *)
(* raised]: the fields of the client a handler works on, what it has       *)
(* rendered and loaded so far, and whether it has thrown.  A handler that  *)
(* throws stops where it throws: what it assigned before stays assigned.   *)

Has(obj, f) == f \in DOMAIN obj

\* obj.f as a Map key: "undefined" when the field is absent
KeyOf(obj, f) == IF Has(obj, f) THEN obj[f] ELSE "undefined"

\* a TypeError leaves the handler
Raise(st) == [st EXCEPT !.raised = TRUE]

\* updateViewport that centres on the local player and forgets the clamp
updateViewportNoClamp(st) ==
    IF ~Truthy(st.myPlayerId) \/ ~MapHas(st.players, st.myPlayerId) THEN st
    ELSE LET myPlayer == MapGet(st.players, st.myPlayerId)
             vp == st.viewport
         IN  [st EXCEPT !.viewport =
                 [vp EXCEPT
                    !.offsetX = Minus(Field(myPlayer, "x"), Num(vp.width \div 2)),
                    !.offsetY = Minus(Field(myPlayer, "y"), Num(vp.height \div 2))]]

\* updateViewport: centre on the local player, clamp to the world
updateViewport(st) ==
    IF ~Truthy(st.myPlayerId) \/ ~MapHas(st.players, st.myPlayerId) THEN st
    ELSE LET myPlayer == MapGet(st.players, st.myPlayerId)
             vp == st.viewport
             cx == Minus(Field(myPlayer, "x"), Num(vp.width \div 2))
             cy == Minus(Field(myPlayer, "y"), Num(vp.height \div 2))
         IN  [st EXCEPT !.viewport =
                 [vp EXCEPT
                    !.offsetX = MathMax(Num(0), MathMin(cx, Num(worldSize - vp.width))),
                    !.offsetY = MathMax(Num(0), MathMin(cy, Num(worldSize - vp.height)))]]

\* a < b on numbers that may be NaN: a comparison with NaN is false
Lt(a, b) == IsNum(a) /\ IsNum(b) /\ Val(a) < Val(b)

Skipped == [status |-> "skipped"]

\* the frame index of drawPlayer: Math.min(player.animationFrame || 0,
\* frames.length - 1), an index into a 0-based array
frameIndex(player, frames) ==
    Min(IF "animationFrame" \in DOMAIN player THEN player.animationFrame ELSE 0,
        Len(frames) - 1)

\* drawPlayer that mirrors no sprite
drawPlayerNoFlip(st, player) ==
    LET vp == st.viewport
        x == Field(player, "x")
        y == Field(player, "y")
        culled == \/ Lt(x, vp.offsetX) \/ Lt(Plus(vp.offsetX, Num(vp.width)), x)
                  \/ Lt(y, vp.offsetY) \/ Lt(Plus(vp.offsetY, Num(vp.height)), y)
        known == "avatar" \in DOMAIN player /\ MapHas(st.avatarImages, player.avatar)
    IN  IF culled \/ ~known THEN Skipped
        ELSE LET images == MapGet(st.avatarImages, player.avatar)
                 facing == IF "facing" \in DOMAIN player THEN player.facing ELSE "undefined"
                 set == CASE facing = "north" -> "north"
                          [] facing = "south" -> "south"
                          [] facing = "east" -> "east"
                          [] facing = "west" -> "east"
                          [] OTHER -> "south"
                 frames == images[set]
                 index == frameIndex(player, frames)
             IN  IF Len(frames) = 0 THEN Skipped
                 ELSE IF index < 0 THEN [status |-> "threw", frames |-> set, index |-> index]
                 ELSE IF ~frames[index + 1].complete THEN Skipped
                 ELSE [status |-> "drawn", frames |-> set, index |-> index,
                       image |-> frames[index + 1].src,
                       sprite |-> "identity", label |-> "identity"]

\* drawPlayer: skipped (outside the viewport, no images for the avatar, no
\* frames, image not loaded yet), drawn, or threw: frames[index] is
\* undefined for a negative index and reading its .complete is a TypeError.
\* sprite and label are the canvas transforms under which the avatar image
\* and the username are drawn: ctx.save, ctx.scale(-1, 1) for a flipped
\* sprite, ctx.restore before the text.
drawPlayer(st, player) ==
    LET vp == st.viewport
        x == Field(player, "x")
        y == Field(player, "y")
        culled == \/ Lt(x, vp.offsetX) \/ Lt(Plus(vp.offsetX, Num(vp.width)), x)
                  \/ Lt(y, vp.offsetY) \/ Lt(Plus(vp.offsetY, Num(vp.height)), y)
        known == "avatar" \in DOMAIN player /\ MapHas(st.avatarImages, player.avatar)
    IN  IF culled \/ ~known THEN Skipped
        ELSE LET images == MapGet(st.avatarImages, player.avatar)
                 facing == IF "facing" \in DOMAIN player THEN player.facing ELSE "undefined"
                 flipX == facing = "west"
                 set == CASE facing = "north" -> "north"
                          [] facing = "south" -> "south"
                          [] facing = "east" -> "east"
                          [] facing = "west" -> "east"
                          [] OTHER -> "south"
                 frames == images[set]
                 index == frameIndex(player, frames)
                 saved == "identity"
                 scaled == IF flipX THEN "mirrored" ELSE saved
                 restored == saved
             IN  IF Len(frames) = 0 THEN Skipped
                 ELSE IF index < 0 THEN [status |-> "threw", frames |-> set, index |-> index]
                 ELSE IF ~frames[index + 1].complete THEN Skipped
                 ELSE [status |-> "drawn", frames |-> set, index |-> index,
                       image |-> frames[index + 1].src,
                       sprite |-> scaled, label |-> restored]

\* drawPlayers: the players in Map order, up to the first drawPlayer that
\* throws; [sprites, threw], a sprite is [key, draw] of a player not skipped
RECURSIVE drawPlayers(_, _)
drawPlayers(st, entries) ==
    IF entries = <<>> THEN [sprites |-> <<>>, threw |-> FALSE]
    ELSE LET d == drawPlayer(st, Head(entries).val)
             one == <<[key |-> Head(entries).key, draw |-> d]>>
         IN  IF d.status = "threw" THEN [sprites |-> one, threw |-> TRUE]
             ELSE LET rest == drawPlayers(st, Tail(entries))
                  IN  [sprites |-> (IF d.status = "skipped" THEN <<>> ELSE one)
                                      \o rest.sprites,
                       threw |-> rest.threw]

LoadingScreen == [screen |-> "loading", sprites |-> <<>>, threw |-> FALSE]

\* render that draws the world before a player id is known
renderNoLoadingScreen(st) ==
    LET d == drawPlayers(st, st.players)
    IN  [st EXCEPT !.drawn =
            Append(@, [screen |-> "world", sprites |-> d.sprites, threw |-> d.threw]),
                   !.raised = @ \/ d.threw]

\* render: the loading screen until a player id is known (this.worldImage is
\* assigned by the constructor before any event), else the world and the
\* players; the frame is appended to st.drawn, and a drawPlayer that throws
\* makes render throw
render(st) ==
    IF ~Truthy(st.myPlayerId) THEN [st EXCEPT !.drawn = Append(@, LoadingScreen)]
    ELSE LET d == drawPlayers(st, st.players)
         IN  [st EXCEPT !.drawn =
                 Append(@, [screen |-> "world", sprites |-> d.sprites, threw |-> d.threw]),
                        !.raised = @ \/ d.threw]

\* for (const [k, v] of Object.entries(obj)) map.set(k, v)
RECURSIVE SetAll(_, _)
SetAll(m, entries) ==
    IF entries = <<>> THEN m
    ELSE SetAll(MapSet(m, Head(entries).key, Head(entries).val), Tail(entries))

\* new Image() with img.src = frameData: not loaded yet
Image(frameData) == [src |-> frameData, complete |-> FALSE]
Images(frames) == [i \in 1..Len(frames) |-> Image(frames[i])]

\* loadAvatarImages: a fresh image array per direction, one new image per
\* frame; the Map entry of the name is set whether or not it exists
loadAvatarImages(images, avatarName, avatarData) ==
    MapSet(images, avatarName,
           [north |-> Images(avatarData.frames.north),
            south |-> Images(avatarData.frames.south),
            east |-> Images(avatarData.frames.east)])

\* loadAvatarImages reads avatarData.frames[direction] for the three
\* directions and iterates it: a TypeError when frames or a direction is
\* missing, before the Map entry is set
CanLoad(avatarData) ==
    /\ Has(avatarData, "frames")
    /\ \A direction \in {"north", "south", "east"} : Has(avatarData.frames, direction)

\* the avatars loop of handleJoinGameSuccess: avatars.set, then
\* loadAvatarImages, entry by entry
RECURSIVE StoreAvatars(_, _)
StoreAvatars(st, entries) ==
    IF entries = <<>> THEN st
    ELSE LET e == Head(entries)
             s1 == [st EXCEPT !.avatars = MapSet(@, e.key, e.val)]
         IN  IF ~CanLoad(e.val) THEN Raise(s1)
             ELSE StoreAvatars(
                      [s1 EXCEPT !.avatarImages = loadAvatarImages(@, e.key, e.val),
                                 !.loaded = Append(@, e.key)],
                      Tail(entries))

\* handleJoinGameSuccess: Object.entries of a missing players or avatars map
\* is a TypeError
handleJoinGameSuccess(st, message) ==
    LET s1 == [st EXCEPT !.myPlayerId =
                  IF Has(message, "playerId") THEN message.playerId ELSE Null]
    IN  IF ~Has(message, "players") THEN Raise(s1)
        ELSE LET s2 == [s1 EXCEPT !.players = SetAll(@, message.players)]
             IN  IF ~Has(message, "avatars") THEN Raise(s2)
                 ELSE LET s3 == StoreAvatars(s2, message.avatars)
                      IN  IF s3.raised THEN s3 ELSE render(updateViewport(s3))

\* handlePlayerJoined (it does not call updateViewport): message.player.id
\* and message.avatar.name are TypeErrors when player or avatar is missing
handlePlayerJoined(st, message) ==
    IF ~Has(message, "player") THEN Raise(st)
    ELSE LET s1 == [st EXCEPT !.players =
                       MapSet(@, KeyOf(message.player, "id"), message.player)]
         IN  IF ~Has(message, "avatar") THEN Raise(s1)
             ELSE LET name == KeyOf(message.avatar, "name")
                      s2 == [s1 EXCEPT !.avatars = MapSet(@, name, message.avatar)]
                  IN  IF ~CanLoad(message.avatar) THEN Raise(s2)
                      ELSE render([s2 EXCEPT
                               !.avatarImages = loadAvatarImages(@, name, message.avatar),
                               !.loaded = Append(@, name)])

\* handlePlayersMoved: each entry replaces the stored record of its player
handlePlayersMoved(st, message) ==
    IF ~Has(message, "players") THEN Raise(st)
    ELSE render(updateViewport([st EXCEPT !.players = SetAll(@, message.players)]))

\* handlePlayerLeft that forgets to render
handlePlayerLeftNoRender(st, message) ==
    [st EXCEPT !.players = MapDelete(@, KeyOf(message, "playerId"))]

\* handlePlayerLeft
handlePlayerLeft(st, message) ==
    render([st EXCEPT !.players = MapDelete(@, KeyOf(message, "playerId"))])

\* handleServerMessage whose default branch drops the mirrored players
handleServerMessageResetOnUnknown(st, message) ==
    CASE message.action = "join_game" ->
            IF message.success THEN handleJoinGameSuccess(st, message) ELSE st
      [] message.action = "player_joined" -> handlePlayerJoined(st, message)
      [] message.action = "players_moved" -> handlePlayersMoved(st, message)
      [] message.action = "player_left" -> handlePlayerLeft(st, message)
      [] OTHER -> [st EXCEPT !.players = <<>>]

\* handleServerMessage: dispatch on message.action; the default branch logs
handleServerMessage(st, message) ==
    CASE message.action = "join_game" ->
            IF message.success THEN handleJoinGameSuccess(st, message) ELSE st
      [] message.action = "player_joined" -> handlePlayerJoined(st, message)
      [] message.action = "players_moved" -> handlePlayersMoved(st, message)
      [] message.action = "player_left" -> handlePlayerLeft(st, message)
      [] OTHER -> st

\* JSON.parse of an inbound payload: a payload is either text that is not
\* JSON (wellFormed = FALSE) or the encoding of the message `value`
JSONParse(data) ==
    IF data.wellFormed THEN [ok |-> TRUE, value |-> data.value] ELSE [ok |-> FALSE]

\* socket.onmessage whose catch block drops the mirrored players
onmessageResetOnError(st, data) ==
    LET r == JSONParse(data)
    IN  IF r.ok THEN handleServerMessage(st, r.value) ELSE [st EXCEPT !.players = <<>>]

\* socket.onmessage: parse, dispatch; a parse failure, and an error thrown
\* by the handler, is caught and logged
onmessage(st, data) ==
    LET r == JSONParse(data)
    IN  IF r.ok THEN handleServerMessage(st, r.value) ELSE st

\* The per-field merge the data model describes (history only): a player is
\* created by join_game / player_joined and removed by player_left; a
\* players_moved entry overwrites the fields it carries and keeps the others.
MergeFields(old, new) ==
    [f \in DOMAIN old \cup DOMAIN new |-> IF f \in DOMAIN new THEN new[f] ELSE old[f]]

RECURSIVE MergeAll(_, _)
MergeAll(m, entries) ==
    IF entries = <<>> THEN m
    ELSE LET e == Head(entries)
             v == IF MapHas(m, e.key) THEN MergeFields(MapGet(m, e.key), e.val) ELSE e.val
         IN  MergeAll(MapSet(m, e.key, v), Tail(entries))

NextMerged(m, data) ==
    IF ~data.wellFormed THEN m
    ELSE LET message == data.value
         IN  CASE message.action = "join_game" ->
                     IF message.success /\ Has(message, "players")
                     THEN SetAll(m, message.players) ELSE m
               [] message.action = "player_joined" ->
                     IF Has(message, "player")
                     THEN MapSet(m, KeyOf(message.player, "id"), message.player) ELSE m
               [] message.action = "players_moved" ->
                     IF Has(message, "players") THEN MergeAll(m, message.players) ELSE m
               [] message.action = "player_left" -> MapDelete(m, KeyOf(message, "playerId"))
               [] OTHER -> m

----------------------------------------------------------------------------
(* Pointer, follow and particles *)

Within(player, x, y) ==
    /\ IsNum(x) /\ IsNum(y)
    /\ "x" \in DOMAIN player /\ "y" \in DOMAIN player
    /\ (player.x - Val(x)) * (player.x - Val(x)) + (player.y - Val(y)) * (player.y - Val(y))
          < InteractionRadius * InteractionRadius

\* getPlayerAtPosition: the first player in Map order within the radius,
\* <<player>>, or <<>> for null
getPlayerAtPosition(pl, x, y) ==
    IF \E i \in 1..Len(pl) : Within(pl[i].val, x, y)
    THEN LET i == CHOOSE i \in 1..Len(pl) :
                     /\ Within(pl[i].val, x, y)
                     /\ \A j \in 1..(i - 1) : ~Within(pl[j].val, x, y)
         IN  <<pl[i].val>>
    ELSE <<>>

\* updateFollowPlayer: [followingPlayer, out]
updateFollowPlayer(fp, pid, pl, connected) ==
    IF ~Truthy(fp) \/ ~MapHas(pl, fp) THEN [followingPlayer |-> Null, out |-> <<>>]
    ELSE IF ~Truthy(pid) \/ ~MapHas(pl, pid) THEN [followingPlayer |-> fp, out |-> <<>>]
    ELSE LET myPlayer == MapGet(pl, pid)
             targetPlayer == MapGet(pl, fp)
             dx == Minus(Field(targetPlayer, "x"), Field(myPlayer, "x"))
             dy == Minus(Field(targetPlayer, "y"), Field(myPlayer, "y"))
             Abs(n) == IF n < 0 THEN -n ELSE n
         IN  IF IsNum(dx) /\ IsNum(dy)
                /\ Val(dx) * Val(dx) + Val(dy) * Val(dy)
                      < InteractionRadius * InteractionRadius
             THEN [followingPlayer |-> Null, out |-> sendStopCommand(connected)]
             ELSE LET direction ==
                          IF IsNum(dx) /\ IsNum(dy) /\ Abs(Val(dx)) > Abs(Val(dy))
                          THEN (IF Val(dx) > 0 THEN "right" ELSE "left")
                          ELSE (IF IsNum(dy) /\ Val(dy) > 0 THEN "down" ELSE "up")
                  IN  [followingPlayer |-> fp,
                       out |-> sendMoveCommand(connected, [direction |-> direction])]

\* updateParticles that keeps a particle whose life has reached zero
updateParticlesKeepsDead(ps) ==
    LET aged == [i \in 1..Len(ps) |->
                    [ps[i] EXCEPT !.x = @ + ps[i].vx, !.y = @ + ps[i].vy, !.life = @ - 1]]
        alive(p) == p.life >= 0
    IN  SelectSeq(aged, alive)

\* updateParticles: move, age, drop the dead
updateParticles(ps) ==
    LET aged == [i \in 1..Len(ps) |->
                    [ps[i] EXCEPT !.x = @ + ps[i].vx, !.y = @ + ps[i].vy, !.life = @ - 1]]
        alive(p) == p.life > 0
    IN  SelectSeq(aged, alive)

\* addParticle (settings.showParticles is never switched off)
addParticle(ps, x, y, vx, vy) ==
    Append(ps, [x |-> x, y |-> y, vx |-> vx, vy |-> vy,
                life |-> ParticleLife, maxLife |-> ParticleLife])

\* updateStats that spawns a particle without looking at the distance
updateStatsNoDistanceCheck(ps, last, pid, pl, vx, vy) ==
    IF ~Truthy(pid) \/ ~MapHas(pl, pid) THEN [particles |-> ps, lastPlayerPosition |-> last]
    ELSE LET myPlayer == MapGet(pl, pid)
             x == Field(myPlayer, "x")
             y == Field(myPlayer, "y")
             moved == last # <<>> /\ IsNum(x) /\ IsNum(y)
         IN  [particles |-> IF moved THEN addParticle(ps, Val(x), Val(y), vx, vy) ELSE ps,
              lastPlayerPosition |-> <<[x |-> x, y |-> y]>>]

\* updateStats: [particles, lastPlayerPosition]; the distance statistics are
\* display only and are not kept
updateStats(ps, last, pid, pl, vx, vy) ==
    IF ~Truthy(pid) \/ ~MapHas(pl, pid) THEN [particles |-> ps, lastPlayerPosition |-> last]
    ELSE LET myPlayer == MapGet(pl, pid)
             x == Field(myPlayer, "x")
             y == Field(myPlayer, "y")
             moved == /\ last # <<>>
                      /\ IsNum(x) /\ IsNum(y) /\ IsNum(last[1].x) /\ IsNum(last[1].y)
                      /\ (x # last[1].x \/ y # last[1].y)
         IN  [particles |-> IF moved THEN addParticle(ps, Val(x), Val(y), vx, vy) ELSE ps,
              lastPlayerPosition |-> <<[x |-> x, y |-> y]>>]

----------------------------------------------------------------------------
(* Initial state: the constructor has run; setupCanvas has sized the        *)
(* viewport, render and the first turn of the game loop have each drawn    *)
(* the loading screen.                                                     *)

\* the client as a handler finds it, with the viewport vp
This(vp) ==
    [myPlayerId |-> myPlayerId, players |-> players, avatars |-> avatars,
     avatarImages |-> avatarImages, viewport |-> vp, drawn |-> <<>>, loaded |-> <<>>,
     raised |-> FALSE]

\* whether a move has been sent since the last stop, after the messages out
RECURSIVE MovedAfter(_, _)
MovedAfter(moved, out) ==
    IF out = <<>> THEN moved
    ELSE MovedAfter(CASE Head(out).action = "move" -> TRUE
                      [] Head(out).action = "stop" -> FALSE
                      [] OTHER -> moved,
                    Tail(out))

\* outbound after a handler that handled event e and sent the messages out
NextOutbound(o, e, out) ==
    LET isJoin(m) == m.action = "join_game"
    IN  [opens |-> IF e.type = "open" THEN Min(o.opens + 1, 2) ELSE o.opens,
         joins |-> Min(o.joins + Len(SelectSeq(out, isJoin)), 2),
         first |-> IF o.first = "none" /\ out # <<>> THEN out[1].action ELSE o.first,
         moved |-> MovedAfter(o.moved /\ e.type # "open", out)]

InitSized(sizes) ==
    /\ chan = "connecting"
    /\ isConnected = FALSE
    /\ errorOrClose = FALSE
    /\ myPlayerId = Null
    /\ players = <<>>
    /\ avatars = <<>>
    /\ avatarImages = <<>>
    /\ merged = <<>>
    /\ discarded = FALSE
    /\ \E s \in sizes :
          viewport = [offsetX |-> Num(0), offsetY |-> Num(0),
                      width |-> s.width, height |-> s.height]
    /\ keyState = [k \in Keys |-> FALSE]
    /\ movementInterval = 0
    /\ movementTimeout = 0
    /\ timers = {}
    /\ hold = Idle
    /\ hoveredPlayer = <<>>
    /\ followingPlayer = Null
    /\ mouse = <<>>
    /\ particles = <<>>
    /\ lastPlayerPosition = <<>>
    /\ showSettings = FALSE
    /\ showPlayerList = FALSE
    /\ sent = <<>>
    /\ ev = Ev("init", "none", FALSE)
    /\ loopAlive = TRUE
    /\ prevTick = <<>>
    /\ idle = 0
    /\ drawn = <<LoadingScreen, LoadingScreen>>
    /\ loaded = <<>>
    /\ joinedOK = FALSE
    /\ outbound = [opens |-> 0, joins |-> 0, first |-> "none", moved |-> FALSE]

----------------------------------------------------------------------------
(* Connection events *)

\* socket.onopen
SocketOpen ==
    /\ chan = "connecting"
    /\ chan' = "open"
    /\ isConnected' = TRUE
    /\ sent' = joinGame(TRUE)
    /\ ev' = Ev("open", "none", FALSE)
    /\ hold' = NextHold(hold, ev', keyState, sent')
    /\ drawn' = <<>>
    /\ loaded' = <<>>
    /\ outbound' = NextOutbound(outbound, ev', sent')
    /\ UNCHANGED <<errorOrClose, world, viewport, keyState, movementInterval,
                   movementTimeout, timers, pointer, frame, panels>>

\* socket.onclose
SocketClose ==
    /\ chan # "closed"
    /\ chan' = "closed"
    /\ isConnected' = FALSE
    /\ errorOrClose' = TRUE
    /\ sent' = <<>>
    /\ ev' = Ev("close", "none", FALSE)
    /\ hold' = NextHold(hold, ev', keyState, sent')
    /\ drawn' = <<>>
    /\ loaded' = <<>>
    /\ outbound' = NextOutbound(outbound, ev', sent')
    /\ UNCHANGED <<world, viewport, keyState, movementInterval, movementTimeout,
                   timers, pointer, frame, panels>>

\* socket.onerror: the handler only logs
SocketError ==
    /\ chan # "closed"
    /\ errorOrClose' = TRUE
    /\ sent' = <<>>
    /\ ev' = Ev("error", "none", FALSE)
    /\ hold' = NextHold(hold, ev', keyState, sent')
    /\ drawn' = <<>>
    /\ loaded' = <<>>
    /\ outbound' = NextOutbound(outbound, ev', sent')
    /\ UNCHANGED <<chan, isConnected, world, viewport, keyState, movementInterval,
                   movementTimeout, timers, pointer, frame, panels>>

MessageKind(data) ==
    IF ~data.wellFormed THEN "garbage"
    ELSE IF data.value.action = "join_game" /\ ~data.value.success THEN "join_failure"
    ELSE data.value.action

\* socket.onmessage
OnMessage(data) ==
    /\ chan = "open"
    /\ LET st2 == onmessage(This(viewport), data)
       IN  /\ myPlayerId' = st2.myPlayerId
           /\ players' = st2.players
           /\ avatars' = st2.avatars
           /\ avatarImages' = st2.avatarImages
           /\ viewport' = st2.viewport
           /\ drawn' = st2.drawn
           /\ loaded' = st2.loaded
    /\ joinedOK' = (joinedOK \/ MessageKind(data) = "join_game")
    /\ ev' = Ev("message",
                IF onmessage(This(viewport), data).raised THEN "handler_error"
                ELSE MessageKind(data),
                data.wellFormed)
    /\ merged' = NextMerged(merged, data)
    /\ discarded' = (discarded \/ ~data.wellFormed)
    /\ sent' = <<>>
    /\ hold' = NextHold(hold, ev', keyState, sent')
    /\ outbound' = NextOutbound(outbound, ev', sent')
    /\ UNCHANGED <<conn, keyState, movementInterval, movementTimeout, timers,
                   pointer, frame, panels>>

\* img.onload of the i-th image of one direction of an avatar's current
\* image set: the browser has loaded it, the handler renders.  (The images
\* of a replaced set load too; their handlers render and change no field.)
ImageLoad(name, direction, i) ==
    /\ MapHas(avatarImages, name)
    /\ LET set == MapGet(avatarImages, name)
       IN  /\ i \in 1..Len(set[direction])
           /\ ~set[direction][i].complete
           /\ avatarImages' =
                  MapSet(avatarImages, name, [set EXCEPT ![direction][i].complete = TRUE])
    /\ drawn' = render([This(viewport) EXCEPT !.avatarImages = avatarImages']).drawn
    /\ loaded' = <<>>
    /\ sent' = <<>>
    /\ ev' = Ev("imageload", name, FALSE)
    /\ hold' = NextHold(hold, ev', keyState, sent')
    /\ outbound' = NextOutbound(outbound, ev', sent')
    /\ UNCHANGED <<conn, myPlayerId, players, avatars, merged, discarded, joinedOK,
                   viewport, keyState, movementInterval, movementTimeout, timers,
                   pointer, frame, panels>>

----------------------------------------------------------------------------
(* Keyboard *)

KeyName(code) ==
    CASE code = "ArrowUp" -> "up"
      [] code = "ArrowDown" -> "down"
      [] code = "ArrowLeft" -> "left"
      [] code = "ArrowRight" -> "right"
      [] OTHER -> "none"

NoTimerChange == [timers |-> timers, movementInterval |-> movementInterval,
                  movementTimeout |-> movementTimeout]

\* handleKeyDown without its check for a key that is already pressed
KeyDownNoRepeatCheck(code) ==
    LET keyName == KeyName(code)
        shortcut == code \in {"KeyS", "KeyP", "Enter"}
        effective == /\ ~shortcut
                     /\ isConnected /\ Truthy(myPlayerId)
                     /\ keyName # "none"
        ks2 == IF effective THEN [keyState EXCEPT ![keyName] = TRUE] ELSE keyState
        tm == IF effective
              THEN startContinuousMovement(timers, movementInterval, movementTimeout)
              ELSE NoTimerChange
    IN  /\ effective => HasFreshId(timers, movementInterval, 0)
        /\ showSettings' = IF code = "KeyS" THEN ~showSettings ELSE showSettings
        /\ showPlayerList' = IF code = "KeyP" THEN ~showPlayerList ELSE showPlayerList
        /\ drawn' = IF code \in {"KeyS", "KeyP"} THEN render(This(viewport)).drawn ELSE <<>>
        /\ loaded' = <<>>
        /\ keyState' = ks2
        /\ sent' = IF effective THEN sendMoveCommandForActiveKeys(isConnected, ks2) ELSE <<>>
        /\ timers' = tm.timers
        /\ movementInterval' = tm.movementInterval
        /\ movementTimeout' = tm.movementTimeout
        /\ ev' = Ev("keydown", keyName, effective)
        /\ hold' = NextHold(hold, ev', ks2, sent')
        /\ outbound' = NextOutbound(outbound, ev', sent')
        /\ UNCHANGED <<conn, world, viewport, pointer, frame>>

\* handleKeyDown
KeyDown(code) ==
    LET keyName == KeyName(code)
        shortcut == code \in {"KeyS", "KeyP", "Enter"}
        effective == /\ ~shortcut
                     /\ isConnected /\ Truthy(myPlayerId)
                     /\ keyName # "none"
                     /\ ~keyState[keyName]
        ks2 == IF effective THEN [keyState EXCEPT ![keyName] = TRUE] ELSE keyState
        tm == IF effective
              THEN startContinuousMovement(timers, movementInterval, movementTimeout)
              ELSE NoTimerChange
    IN  /\ effective => HasFreshId(timers, movementInterval, 0)
        /\ showSettings' = IF code = "KeyS" THEN ~showSettings ELSE showSettings
        /\ showPlayerList' = IF code = "KeyP" THEN ~showPlayerList ELSE showPlayerList
        /\ drawn' = IF code \in {"KeyS", "KeyP"} THEN render(This(viewport)).drawn ELSE <<>>
        /\ loaded' = <<>>
        /\ keyState' = ks2
        /\ sent' = IF effective THEN sendMoveCommandForActiveKeys(isConnected, ks2) ELSE <<>>
        /\ timers' = tm.timers
        /\ movementInterval' = tm.movementInterval
        /\ movementTimeout' = tm.movementTimeout
        /\ ev' = Ev("keydown", keyName, effective)
        /\ hold' = NextHold(hold, ev', ks2, sent')
        /\ outbound' = NextOutbound(outbound, ev', sent')
        /\ UNCHANGED <<conn, world, viewport, pointer, frame>>

\* handleKeyUp
KeyUp(code) ==
    LET keyName == KeyName(code)
        arrow == keyName # "none"
        ks2 == IF arrow THEN [keyState EXCEPT ![keyName] = FALSE] ELSE keyState
        stopping == arrow /\ ~anyKeyPressed(ks2)
        tm == IF ~arrow THEN NoTimerChange
              ELSE IF stopping
                   THEN stopContinuousMovement(timers, movementInterval, movementTimeout)
                   ELSE startContinuousMovement(timers, movementInterval, movementTimeout)
    IN  /\ (arrow /\ ~stopping) => HasFreshId(timers, movementInterval, 0)
        /\ keyState' = ks2
        /\ sent' = IF stopping THEN sendStopCommand(isConnected) ELSE <<>>
        /\ timers' = tm.timers
        /\ movementInterval' = tm.movementInterval
        /\ movementTimeout' = tm.movementTimeout
        /\ ev' = Ev("keyup", keyName, arrow /\ keyState[keyName])
        /\ hold' = NextHold(hold, ev', ks2, sent')
        /\ drawn' = <<>>
        /\ loaded' = <<>>
        /\ outbound' = NextOutbound(outbound, ev', sent')
        /\ UNCHANGED <<conn, world, viewport, pointer, frame, panels>>

\* the setTimeout callback of startContinuousMovement
TimeoutFire ==
    \E t \in timers :
        /\ t.kind = "timeout" /\ t.remaining = 0
        /\ LET rest == timers \ {t}
               pressed == anyKeyPressed(keyState)
               id == FreshId(rest, movementInterval, movementTimeout)
           IN  /\ pressed => HasFreshId(rest, movementInterval, movementTimeout)
               /\ timers' = IF pressed
                            THEN rest \cup {[id |-> id, kind |-> "interval",
                                             remaining |-> RepeatInterval]}
                            ELSE rest
               /\ movementInterval' = IF pressed THEN id ELSE movementInterval
        /\ sent' = <<>>
        /\ ev' = Ev("timeout", "none", FALSE)
        /\ hold' = NextHold(hold, ev', keyState, sent')
        /\ drawn' = <<>>
        /\ loaded' = <<>>
        /\ outbound' = NextOutbound(outbound, ev', sent')
        /\ UNCHANGED <<conn, world, viewport, keyState, movementTimeout, pointer,
                       frame, panels>>

\* the setInterval callback of startContinuousMovement
IntervalFire ==
    \E t \in timers :
        /\ t.kind = "interval" /\ t.remaining = 0
        /\ timers' = (timers \ {t}) \cup {[t EXCEPT !.remaining = RepeatInterval]}
        /\ sent' = sendMoveCommandForActiveKeys(isConnected, keyState)
        /\ ev' = Ev("interval", "none", FALSE)
        /\ hold' = NextHold(hold, ev', keyState, sent')
        /\ drawn' = <<>>
        /\ loaded' = <<>>
        /\ outbound' = NextOutbound(outbound, ev', sent')
        /\ UNCHANGED <<conn, world, viewport, keyState, movementInterval,
                       movementTimeout, pointer, frame, panels>>

\* TimeStep milliseconds pass with no event; no timer is overdue
Advance ==
    /\ timers # {}
    /\ \A t \in timers : t.remaining >= TimeStep
    /\ hold.phase = "holding" => hold.elapsed < MaxElapsed * TimeStep
    /\ timers' = {[t EXCEPT !.remaining = @ - TimeStep] : t \in timers}
    /\ sent' = <<>>
    /\ ev' = Ev("advance", "none", FALSE)
    /\ hold' = NextHold(hold, ev', keyState, sent')
    /\ drawn' = <<>>
    /\ loaded' = <<>>
    /\ outbound' = NextOutbound(outbound, ev', sent')
    /\ UNCHANGED <<conn, world, viewport, keyState, movementInterval,
                   movementTimeout, pointer, frame, panels>>

----------------------------------------------------------------------------
(* Pointer, window and frame events *)

\* handleMouseMove: pt is the pointer's canvas position
MouseMove(pt) ==
    /\ hoveredPlayer' = getPlayerAtPosition(players,
                            Plus(Num(pt.x), viewport.offsetX),
                            Plus(Num(pt.y), viewport.offsetY))
    /\ sent' = <<>>
    /\ mouse' = <<pt>>
    /\ ev' = Ev("mousemove", "none", hoveredPlayer' # <<>>)
    /\ hold' = NextHold(hold, ev', keyState, sent')
    /\ drawn' = <<>>
    /\ loaded' = <<>>
    /\ outbound' = NextOutbound(outbound, ev', sent')
    /\ UNCHANGED <<conn, world, viewport, keyState, movementInterval,
                   movementTimeout, timers, followingPlayer, frame, panels>>

\* handleRightClick: j holds the two random offsets (Math.random() - 0.5) * 100
RightClick(pt, j) ==
    LET clicked == IF ~isConnected \/ ~Truthy(myPlayerId) THEN <<>>
                   ELSE getPlayerAtPosition(players,
                            Plus(Num(pt.x), viewport.offsetX),
                            Plus(Num(pt.y), viewport.offsetY))
        other == /\ clicked # <<>>
                 /\ ("id" \notin DOMAIN clicked[1] \/ clicked[1].id # myPlayerId)
    IN  /\ sent' = IF other
                   THEN sendMoveCommand(isConnected,
                            [x |-> clicked[1].x + j.x, y |-> clicked[1].y + j.y])
                   ELSE <<>>
        /\ ev' = Ev("rightclick",
                    IF other /\ "id" \in DOMAIN clicked[1] THEN clicked[1].id ELSE "none",
                    other)
        /\ hold' = NextHold(hold, ev', keyState, sent')
        /\ drawn' = <<>>
        /\ loaded' = <<>>
        /\ outbound' = NextOutbound(outbound, ev', sent')
        /\ UNCHANGED <<conn, world, viewport, keyState, movementInterval,
                       movementTimeout, timers, pointer, frame, panels>>

\* the window's resize listener
Resize(size) ==
    /\ LET st == This([viewport EXCEPT !.width = size.width, !.height = size.height])
           st2 == render(updateViewport(st))
       IN  /\ viewport' = st2.viewport
           /\ drawn' = st2.drawn
    /\ loaded' = <<>>
    /\ sent' = <<>>
    /\ ev' = Ev("resize", "none", FALSE)
    /\ hold' = NextHold(hold, ev', keyState, sent')
    /\ outbound' = NextOutbound(outbound, ev', sent')
    /\ UNCHANGED <<conn, world, keyState, movementInterval, movementTimeout, timers,
                   pointer, frame, panels>>

\* update, one turn of the game loop: v is the random velocity of a particle
\* spawned on this tick.  gameLoop asks for the next animation frame after
\* update returns, so a render that throws ends the loop.
Tick(v) ==
    LET follow == updateFollowPlayer(followingPlayer, myPlayerId, players, isConnected)
        stats == updateStats(updateParticles(particles), lastPlayerPosition,
                             myPlayerId, players, v.vx, v.vy)
        st2 == render(This(viewport))
        idling == particles # <<>> /\ stats.particles = updateParticles(particles)
    IN  /\ loopAlive
        /\ idling => idle < MaxIdleTicks
        /\ idle' = IF idling THEN idle + 1 ELSE idle
        /\ followingPlayer' = follow.followingPlayer
        /\ particles' = stats.particles
        /\ lastPlayerPosition' = stats.lastPlayerPosition
        /\ prevTick' = IF Truthy(myPlayerId) /\ MapHas(players, myPlayerId)
                       THEN <<[x |-> Field(MapGet(players, myPlayerId), "x"),
                               y |-> Field(MapGet(players, myPlayerId), "y")]>>
                       ELSE <<>>
        /\ drawn' = st2.drawn
        /\ loaded' = <<>>
        /\ loopAlive' = ~st2.drawn[1].threw
        /\ sent' = follow.out
        /\ ev' = Ev("tick", "none", followingPlayer # Null)
        /\ hold' = NextHold(hold, ev', keyState, sent')
        /\ outbound' = NextOutbound(outbound, ev', sent')
        /\ UNCHANGED <<conn, world, viewport, keyState, movementInterval,
                       movementTimeout, timers, hoveredPlayer, mouse, panels>>

----------------------------------------------------------------------------
(* Inputs *)

Garbage == [wellFormed |-> FALSE]
Json(message) == [wellFormed |-> TRUE, value |-> message]

Entry(k, v) == [key |-> k, val |-> v]
Player(id, x, y, facing) == [id |-> id, x |-> x, y |-> y, facing |-> facing]
Avatar(name) ==
    [name |-> name, frames |-> [north |-> <<"n0">>, south |-> <<"s0">>, east |-> <<"e0">>]]

JoinSuccess(id, ps) ==
    [action |-> "join_game", success |-> TRUE, playerId |-> id, players |-> ps,
     avatars |-> <<Entry("a1", Avatar("a1"))>>]
JoinFailure == [action |-> "join_game", success |-> FALSE, error |-> "full"]
PlayerJoined(p) == [action |-> "player_joined", player |-> p, avatar |-> Avatar("a2")]
PlayersMoved(ps) == [action |-> "players_moved", players |-> ps]
PlayerLeft(id) == [action |-> "player_left", playerId |-> id]

Size(w, h) == [width |-> w, height |-> h]
Point(x, y) == [x |-> x, y |-> y]

\* Keyboard and connection scenarios: one join, two players standing still,
\* a failed join and a message with an action the client does not know
JoinTwo == JoinSuccess("p1", <<Entry("p1", Player("p1", 100, 100, "south")),
                                Entry("p2", Player("p2", 400, 300, "west"))>>)
Unknown == [action |-> "ping"]
InputPayloads == {Json(Unknown), Json(JoinTwo), Json(JoinFailure)}
InputCodes == ArrowCodes \cup {"KeyA"}
InputPoints == {Point(400, 300), Point(110, 100)}
Jitters == {Point(-50, 49), Point(0, 0)}
Velocities == {[vx |-> -1, vy |-> 0], [vx |-> 0, vy |-> 0]}

Init == InitSized({Size(800, 600)})

Next ==
    \/ SocketOpen
    \/ SocketClose
    \/ SocketError
    \/ \E data \in InputPayloads : OnMessage(data)
    \/ \E code \in InputCodes : KeyDown(code)
    \/ \E code \in InputCodes : KeyUp(code)
    \/ TimeoutFire
    \/ IntervalFire
    \/ Advance
    \/ \E pt \in InputPoints, j \in Jitters : RightClick(pt, j)
    \/ \E v \in Velocities : Tick(v)

Spec == Init /\ [][Next]_vars

\* World mirroring scenarios: full and partial player updates, three window
\* sizes (one taller, one wider than the world)
WorldPayloads ==
    {Garbage, Json(JoinTwo), Json(JoinFailure), Json(Unknown),
     Json(PlayerJoined(Player("p2", 110, 120, "north"))),
     Json(PlayersMoved(<<Entry("p1", Player("p1", 2000, 2000, "east"))>>)),
     Json(PlayersMoved(<<Entry("p1", [x |-> 1500])>>)),
     Json(PlayersMoved(<<Entry("p1", [y |-> 900, facing |-> "north"])>>)),
     Json(PlayersMoved(<<Entry("p2", [x |-> 1500, y |-> 900]),
                         Entry("p1", [facing |-> "west"])>>)),
     Json(PlayerLeft("p1")), Json(PlayerLeft("p2"))}
WorldSizes == {Size(800, 600), Size(800, 2200), Size(3000, 600)}

InitWorld == InitSized(WorldSizes)

NextWorld ==
    \/ SocketOpen
    \/ SocketClose
    \/ \E data \in WorldPayloads : OnMessage(data)
    \/ \E size \in WorldSizes : Resize(size)

SpecWorld == InitWorld /\ [][NextWorld]_vars

\* Scene scenarios: players with avatars and animation frames, a pointer
\* near two players at once, a player_joined that carries the local id
Sprite(id, x, y, facing, animationFrame) ==
    [id |-> id, x |-> x, y |-> y, facing |-> facing, avatar |-> "w1",
     animationFrame |-> animationFrame, username |-> id]
Walker ==
    [name |-> "w1",
     frames |-> [north |-> <<"n0", "n1">>, south |-> <<"s0">>, east |-> <<"e0", "e1">>]]
JoinScene ==
    [action |-> "join_game", success |-> TRUE, playerId |-> "p1",
     players |-> <<Entry("p1", Sprite("p1", 100, 100, "south", 0)),
                   Entry("p2", Sprite("p2", 400, 300, "west", 1))>>,
     avatars |-> <<Entry("w1", Walker)>>]
ScenePayloads ==
    {Json(JoinScene),
     Json([action |-> "player_joined", player |-> Sprite("p2", 110, 120, "east", 5),
           avatar |-> Walker]),
     Json([action |-> "player_joined", player |-> Sprite("p1", 1200, 1200, "north", 1),
           avatar |-> Walker]),
     Json(PlayersMoved(<<Entry("p2", Sprite("p2", 300, 200, "west", 7))>>)),
     Json(PlayersMoved(<<Entry("p1", Sprite("p1", 120, 100, "north", -1))>>)),
     Json(PlayerLeft("p2"))}
ScenePoints == {Point(110, 118), Point(400, 300), Point(700, 500)}
Directions == {"north", "south", "east"}

NextScene ==
    \/ SocketOpen
    \/ \E data \in ScenePayloads : OnMessage(data)
    \/ \E direction \in Directions, i \in 1..2 : ImageLoad("w1", direction, i)
    \/ \E pt \in ScenePoints : MouseMove(pt)

SpecScene == Init /\ [][NextScene]_vars

\* Particle scenarios: the local player steps back and forth between two
\* positions (it is absent before the join); one particle velocity
ParticlePayloads ==
    {Json(JoinTwo),
     Json(PlayersMoved(<<Entry("p1", Player("p1", 104, 100, "east"))>>)),
     Json(PlayersMoved(<<Entry("p1", Player("p1", 100, 100, "west"))>>))}
ParticleVelocities == {[vx |-> 1, vy |-> -1]}

NextParticles ==
    \/ SocketOpen
    \/ \E data \in ParticlePayloads : OnMessage(data)
    \/ \E v \in ParticleVelocities : Tick(v)

SpecParticles == Init /\ [][NextParticles]_vars

\* Fault scenarios: well-formed messages that lack the players map, the
\* avatars map, the player, the avatar or an avatar's frames, among messages
\* that are complete
FaultPayloads ==
    {Json(JoinTwo),
     Json([action |-> "join_game", success |-> TRUE, playerId |-> "p2",
           avatars |-> <<Entry("a1", Avatar("a1"))>>]),
     Json([action |-> "join_game", success |-> TRUE, playerId |-> "p2",
           players |-> <<Entry("p3", Player("p3", 900, 900, "east"))>>]),
     Json([action |-> "join_game", success |-> TRUE, playerId |-> "p1",
           players |-> <<Entry("p1", Player("p1", 700, 700, "north"))>>,
           avatars |-> <<Entry("a1", Avatar("a1")), Entry("a3", [name |-> "a3"])>>]),
     Json([action |-> "players_moved"]),
     Json([action |-> "player_joined", player |-> Player("p4", 500, 500, "south")]),
     Json([action |-> "player_joined", avatar |-> Avatar("a2")]),
     Json(PlayersMoved(<<Entry("p1", Player("p1", 1500, 900, "west"))>>)),
     Json(PlayerLeft("p2"))}

NextFaults ==
    \/ SocketOpen
    \/ SocketClose
    \/ \E data \in FaultPayloads : OnMessage(data)

SpecFaults == Init /\ [][NextFaults]_vars

----------------------------------------------------------------------------
(* Properties *)

LocalPresent == Truthy(myPlayerId) /\ MapHas(players, myPlayerId)
LocalPlayer == MapGet(players, myPlayerId)

\* the last handler ran updateViewport past its guard, on numeric coordinates
ViewportUpdated ==
    /\ \/ ev.type = "resize"
       \/ ev.type = "message" /\ ev.key \in {"join_game", "players_moved"}
    /\ LocalPresent
    /\ "x" \in DOMAIN LocalPlayer /\ "y" \in DOMAIN LocalPlayer

\* C1 (as claimed): the stored fields of every player are the per-field,
\* last-write-wins merge of the updates received for it: a field absent from
\* a later players_moved entry keeps its earlier value.
C1_PerFieldMerge ==
    \A i \in 1..Len(players) :
        /\ MapHas(merged, players[i].key)
        /\ players[i].val = MapGet(merged, players[i].key)

\* C4 (as claimed): after updateViewport, 0 <= offsetX <= worldSize - w and
\* 0 <= offsetY <= worldSize - h, for every viewport size.
C4_OffsetWithinWorld ==
    ViewportUpdated =>
        /\ IsNum(viewport.offsetX) /\ IsNum(viewport.offsetY)
        /\ 0 <= Val(viewport.offsetX)
        /\ Val(viewport.offsetX) <= worldSize - viewport.width
        /\ 0 <= Val(viewport.offsetY)
        /\ Val(viewport.offsetY) <= worldSize - viewport.height

\* C4 (amended): after updateViewport on a local player with numeric
\* coordinates, 0 <= offsetX <= max(0, worldSize - w) and
\* 0 <= offsetY <= max(0, worldSize - h): a viewport larger than the world
\* gets offset 0; a player at x = 100 with viewport width 800 gets offsetX = 0.
C4_OffsetClamped ==
    ViewportUpdated =>
        /\ IsNum(viewport.offsetX) /\ IsNum(viewport.offsetY)
        /\ 0 <= Val(viewport.offsetX)
        /\ Val(viewport.offsetX) <= Max(0, worldSize - viewport.width)
        /\ 0 <= Val(viewport.offsetY)
        /\ Val(viewport.offsetY) <= Max(0, worldSize - viewport.height)
        /\ (LocalPlayer.x = 100 /\ viewport.width = 800) => viewport.offsetX = Num(0)

\* player at x = 100, width 800 (unclamped offset -300), viewport taller than
\* the world
C4_Witness ==
    /\ ViewportUpdated
    /\ LocalPlayer.x = 100 /\ viewport.width = 800 /\ viewport.height > worldSize
    /\ viewport.offsetX = Num(0) /\ viewport.offsetY = Num(0)

\* C9: a payload that fails to parse changes neither the local player id, the
\* players, the avatars (and their images) nor the viewport, and a
\* well-formed message handled after such a discard has the effect of
\* handleServerMessage on it.
C9_MalformedDiscarded ==
    [][/\ (ev'.type = "message" /\ ~ev'.flag) =>
              UNCHANGED <<myPlayerId, players, avatars, avatarImages, viewport>>
       /\ (discarded /\ ev'.type = "message" /\ ev'.flag) =>
              \E data \in WorldPayloads :
                  /\ data.wellFormed
                  /\ MessageKind(data) = ev'.key
                  /\ [myPlayerId |-> myPlayerId', players |-> players',
                      avatars |-> avatars', avatarImages |-> avatarImages',
                      viewport |-> viewport', drawn |-> drawn', loaded |-> loaded',
                      raised |-> FALSE]
                        = handleServerMessage(This(viewport), data.value)]_vars

\* a malformed payload arrived after the join, with players mirrored
C9_Witness ==
    /\ ev.type = "message" /\ ~ev.flag
    /\ Truthy(myPlayerId) /\ Len(players) = 2 /\ avatars # <<>>

\* the highest-priority pressed direction
ActiveDirection(ks) ==
    IF ks["up"] THEN "up" ELSE IF ks["down"] THEN "down"
    ELSE IF ks["left"] THEN "left" ELSE "right"

IntervalDue == \E t \in timers : t.kind = "interval" /\ t.remaining = 0

\* C2: while one direction key is held alone (connected and joined), the
\* direction moves sent since the key-down are one at the key-down and one
\* per 100 ms once 200 ms have passed (the first 300 ms after the key-down),
\* all for the held direction, with no stop; the release sends exactly one
\* stop and nothing else, and no direction move follows until the next
\* key-down.
C2_HoldRepeat ==
    /\ hold.phase = "holding" =>
          /\ hold.moves + (IF IntervalDue THEN 1 ELSE 0)
                = (IF hold.elapsed < 300 THEN 1 ELSE 1 + (hold.elapsed - 200) \div 100)
          /\ \A i \in 1..Len(sent) :
                /\ ~IsStop(sent[i])
                /\ IsDirMove(sent[i]) => sent[i].direction = ActiveDirection(keyState)
    /\ hold.phase = "released" => sent = <<[action |-> "stop"]>>
    /\ hold.phase \in {"released", "after"} => hold.late = 0

\* a key held alone for 500 ms (4 moves) has just been released
C2_Witness ==
    /\ hold.phase = "released" /\ hold.elapsed = 500 /\ hold.moves = 4
    /\ sent = <<[action |-> "stop"]>>

\* C3 (as claimed): the key-up handler of one of two held keys, the other
\* still held, sends no stop command and sends a move command for the
\* remaining direction.
C3_KeyUpSendsMove ==
    (ev.type = "keyup" /\ ev.flag /\ anyKeyPressed(keyState)) =>
        /\ NumStops(sent) = 0
        /\ \E i \in 1..Len(sent) :
              IsDirMove(sent[i]) /\ sent[i].direction = ActiveDirection(keyState)

\* C5: no message is handed to the socket unless the channel is open.
C5_NoSendUnlessOpen ==
    sent # <<>> => chan = "open"

\* the repeat interval fired with a key held after the channel closed, and
\* its move was dropped
C5_Witness ==
    /\ chan = "closed" /\ ev.type = "interval" /\ anyKeyPressed(keyState)
    /\ sent = <<>>

\* C6: at most one of the debounce timeout and the repeat interval is active.
C6_OneRepeatSequence ==
    Cardinality(timers) <= 1

\* a key event rearmed the sequence after a repeat interval had been started
C6_Witness ==
    /\ ev.type \in {"keydown", "keyup"}
    /\ movementInterval # 0
    /\ \E t \in timers : t.kind = "timeout" /\ t.remaining = DebounceDelay

\* No handler assigns a player id to followingPlayer: the follow target is
\* null in every reachable state, so updateFollowPlayer always returns at its
\* first guard.
FollowTargetNeverSet ==
    followingPlayer = Null

\* C8 (as claimed): a right-click on a player other than the local one sets
\* the follow target to that player's id.
C8_RightClickFollows ==
    (ev.type = "rightclick" /\ ev.flag) => followingPlayer = ev.key

\* C10 (as claimed): once an error or close event has been delivered the
\* connection state is Closed and nothing is sent.
C10_ClosedAfterErrorOrClose ==
    errorOrClose => (~isConnected /\ sent = <<>>)

\* C11: a join_game response with success = false changes neither the local
\* player id, the players, the avatars, their images nor the viewport and
\* renders nothing, and until a successful join has been handled every frame
\* rendered is the loading screen.
C11_JoinFailureNoEffect ==
    [][/\ (ev'.type = "message" /\ ev'.key = "join_failure") =>
            /\ UNCHANGED <<myPlayerId, players, avatars, avatarImages, viewport>>
            /\ drawn' = <<>>
       /\ ~joinedOK' =>
            /\ myPlayerId' = Null
            /\ \A i \in 1..Len(drawn') : drawn'[i] = LoadingScreen]_vars

\* a failed join response has been handled on an open channel, before any
\* successful join
C11_Witness ==
    /\ ev.type = "message" /\ ev.key = "join_failure"
    /\ chan = "open" /\ ~joinedOK /\ myPlayerId = Null

MessagesRendered == {"join_game", "player_joined", "players_moved", "player_left"}

\* C12: the handler of a join_game success, player_joined, players_moved or
\* player_left message calls render exactly once.
C12_OneRedrawPerMessage ==
    (ev.type = "message" /\ ev.key \in MessagesRendered) => Len(drawn) = 1

\* a player_left has been handled after the join: one frame of the world
C12_Witness ==
    /\ ev.type = "message" /\ ev.key = "player_left"
    /\ joinedOK /\ Len(players) = 1
    /\ Len(drawn) = 1 /\ drawn[1].screen = "world"

\* squared distance of a player to the world position (x, y)
Dist2(player, x, y) ==
    (player.x - x) * (player.x - x) + (player.y - y) * (player.y - y)

\* C13: after a pointer movement the hover target is a nearest player among
\* those within InteractionRadius of the pointer's world position, and null
\* when there is none.
C13_HoverNearest ==
    (ev.type = "mousemove" /\ IsNum(viewport.offsetX) /\ IsNum(viewport.offsetY)) =>
        LET x == mouse[1].x + Val(viewport.offsetX)
            y == mouse[1].y + Val(viewport.offsetY)
            near == {i \in 1..Len(players) :
                        Dist2(players[i].val, x, y) < InteractionRadius * InteractionRadius}
        IN  IF near = {} THEN hoveredPlayer = <<>>
            ELSE \E i \in near :
                    /\ hoveredPlayer = <<players[i].val>>
                    /\ \A j \in near :
                          Dist2(players[i].val, x, y) <= Dist2(players[j].val, x, y)

Clamp(v, lo, hi) == Max(lo, Min(v, hi))

\* C14: after a join_game success, players_moved or player_joined message
\* that changes the stored position of the local player, the viewport offset
\* is the local player's position minus half the viewport size, clamped to
\* the world.
C14_ViewportFollowsLocal ==
    [][(/\ ev'.type = "message"
        /\ ev'.key \in {"join_game", "players_moved", "player_joined"}
        /\ LocalPresent'
        /\ "x" \in DOMAIN LocalPlayer' /\ "y" \in DOMAIN LocalPlayer'
        /\ \/ ~LocalPresent
           \/ Field(LocalPlayer, "x") # Field(LocalPlayer', "x")
           \/ Field(LocalPlayer, "y") # Field(LocalPlayer', "y"))
       => /\ viewport'.offsetX =
                Num(Clamp(LocalPlayer'.x - viewport'.width \div 2,
                          0, worldSize - viewport'.width))
          /\ viewport'.offsetY =
                Num(Clamp(LocalPlayer'.y - viewport'.height \div 2,
                          0, worldSize - viewport'.height))]_vars

\* C15: a message whose avatar name already has images starts no new load for
\* that name and leaves its image set as it was.
C15_AvatarLoadedOnce ==
    [][ev'.type = "message" =>
          \A k \in 1..Len(avatarImages) :
              LET name == avatarImages[k].key
              IN  /\ \A i \in 1..Len(loaded') : loaded'[i] # name
                  /\ MapHas(avatarImages', name)
                  /\ MapGet(avatarImages', name) = avatarImages[k].val]_vars

\* the draws of the players in the frames rendered by the last handler
Draws ==
    UNION {{drawn[i].sprites[k] : k \in 1..Len(drawn[i].sprites)} : i \in 1..Len(drawn)}

\* the number of frames of the set a draw took its image from
FrameCount(s) == Len(MapGet(avatarImages, MapGet(players, s.key).avatar)[s.draw.frames])

\* C16: the frame index drawPlayer computes lies in 0 .. frameCount - 1,
\* whatever the integer animationFrame of the player.
C16_FrameIndexInRange ==
    \A s \in Draws : s.draw.index >= 0 /\ s.draw.index <= FrameCount(s) - 1

\* C17: a player facing west is drawn with the image of the east frame set
\* at the clamped frame index under a horizontal mirror, a player facing
\* east, north or south with the image of its own set unmirrored, and the
\* username is never mirrored.
C17_WestMirrorsEast ==
    \A s \in Draws :
        s.draw.status = "drawn" =>
            LET player == MapGet(players, s.key)
                set == IF player.facing = "west" THEN "east" ELSE player.facing
                frames == MapGet(avatarImages, player.avatar)[set]
                index == Clamp(player.animationFrame, 0, Len(frames) - 1)
            IN  /\ player.facing \in {"north", "south", "east", "west"}
                /\ s.draw.frames = set
                /\ s.draw.index = index
                /\ s.draw.image = frames[index + 1].src
                /\ s.draw.sprite = (IF player.facing = "west" THEN "mirrored" ELSE "identity")
                /\ s.draw.label = "identity"

\* a player that faces west with an animation frame past the end of the east
\* set has been drawn, mirrored, with the last east image
C17_Witness ==
    \E s \in Draws :
        /\ s.draw.status = "drawn"
        /\ MapGet(players, s.key).facing = "west"
        /\ MapGet(players, s.key).animationFrame = 7
        /\ s.draw.sprite = "mirrored" /\ s.draw.image = "e1"

\* C18: the channel opens at most once, a join_game message is sent exactly
\* when it opens and at no other time, and it is the first message the
\* client ever sends: no move or stop precedes it.
C18_OneJoinAtOpen ==
    /\ outbound.opens <= 1
    /\ outbound.joins = outbound.opens
    /\ chan = "connecting" => outbound.opens = 0
    /\ chan = "open" => outbound.opens = 1
    /\ (\E i \in 1..Len(sent) : sent[i].action = "join_game") =>
           (ev.type = "open" /\ sent = <<JoinMessage>>)
    /\ ev.type = "open" => sent = <<JoinMessage>>
    /\ outbound.first \in {"none", "join_game"}
    /\ sent # <<>> => outbound.first = "join_game"

\* a move has been sent by a key press, after the one join_game
C18_Witness ==
    /\ ev.type = "keydown" /\ sent # <<>> /\ IsDirMove(sent[1])
    /\ outbound.opens = 1 /\ outbound.joins = 1 /\ outbound.first = "join_game"

\* C19: a well-formed message with an unknown action changes neither the
\* players, the avatars and their images, the local player id, the viewport,
\* the key state nor the repeat timers, renders nothing and sends nothing.
C19_UnknownActionIgnored ==
    [][(ev'.type = "message" /\ ev'.key \notin MessagesRendered \cup {"join_failure", "garbage"})
          => /\ UNCHANGED <<myPlayerId, players, avatars, avatarImages, viewport,
                            keyState, movementInterval, movementTimeout, timers>>
             /\ sent' = <<>>
             /\ drawn' = <<>>]_vars

\* an unknown message arrived while joined, with a key held and its timer armed
C19_Witness ==
    /\ ev.type = "message" /\ ev.key = "ping"
    /\ joinedOK /\ Len(players) = 2
    /\ anyKeyPressed(keyState) /\ timers # {}

\* C20: a key-down of a direction that is not pressed, while connected and
\* joined, marks it pressed and sends exactly one move, in the direction of
\* highest priority among the pressed ones (up > down > left > right); a
\* move sent by the repeat timer follows the same rule.
C20_KeyDownPriority ==
    [][/\ (/\ ev'.type = "keydown" /\ ev'.key \in Keys
           /\ isConnected /\ Truthy(myPlayerId) /\ ~keyState[ev'.key])
          => /\ keyState' = [keyState EXCEPT ![ev'.key] = TRUE]
             /\ sent' = <<[action |-> "move", direction |-> ActiveDirection(keyState')]>>
       /\ (ev'.type = "interval" /\ isConnected /\ anyKeyPressed(keyState))
          => sent' = <<[action |-> "move", direction |-> ActiveDirection(keyState)]>>]_vars

\* right was pressed while up was held: the move sent is up
C20_Witness ==
    /\ ev.type = "keydown" /\ ev.key = "right" /\ ev.flag
    /\ keyState["up"] /\ keyState["right"]
    /\ sent = <<[action |-> "move", direction |-> "up"]>>

\* C21: a key-down of a direction that is already pressed sends nothing and
\* changes neither the key state, the debounce timeout nor the repeat
\* interval.
C21_AutoRepeatIgnored ==
    [][(ev'.type = "keydown" /\ ev'.key \in Keys /\ keyState[ev'.key])
          => /\ sent' = <<>>
             /\ UNCHANGED <<keyState, timers, movementInterval, movementTimeout>>]_vars

\* a second key-down of up arrived while up was held, connected and joined,
\* with the repeat interval running
C21_Witness ==
    /\ ev.type = "keydown" /\ ev.key = "up" /\ ~ev.flag
    /\ keyState["up"] /\ isConnected /\ Truthy(myPlayerId)
    /\ \E t \in timers : t.kind = "interval"

\* C23: a tick spawns exactly one particle, at the local player's position,
\* when that position differs from the one it had at the previous tick, and
\* spawns none when the position is the same, when the local player is
\* absent, or when no earlier tick knew a position.  (Particles whose life
\* was above 1 survive the tick; the others are dropped.)
C23_ParticlePerMove ==
    [][ev'.type = "tick" =>
          LET kept == Cardinality({i \in 1..Len(particles) : particles[i].life > 1})
              spawned == Len(particles') - kept
              present == LocalPresent
              x == IF present THEN Field(LocalPlayer, "x") ELSE NaN
              y == IF present THEN Field(LocalPlayer, "y") ELSE NaN
              known == IsNum(x) /\ IsNum(y)
          IN  /\ (known /\ prevTick # <<>> /\ [x |-> x, y |-> y] # prevTick[1]) =>
                    /\ spawned = 1
                    /\ particles'[Len(particles')].x = Val(x)
                    /\ particles'[Len(particles')].y = Val(y)
                    /\ particles'[Len(particles')].life = ParticleLife
              /\ (\/ ~present
                  \/ lastPlayerPosition = <<>>
                  \/ (prevTick # <<>> /\ [x |-> x, y |-> y] = prevTick[1])) =>
                    spawned = 0]_vars

\* a tick has spawned a particle at the local player's new position, next to
\* older particles
C23_Witness ==
    /\ ev.type = "tick" /\ LocalPresent
    /\ Len(particles) >= 2
    /\ particles[Len(particles)].life = ParticleLife
    /\ particles[Len(particles)].x = LocalPlayer.x
    /\ prevTick = <<[x |-> Num(104), y |-> Num(100)]>>

\* C24: the particle list never holds more particles than the life of one
\* (30), and every particle in it has a life above 0 and at most its maxLife.
C24_ParticlesBounded ==
    /\ Len(particles) <= ParticleLife
    /\ \A i \in 1..Len(particles) :
          particles[i].life > 0 /\ particles[i].life <= particles[i].maxLife

\* the list is full and its oldest particle is on its last tick
C24_Witness ==
    /\ Len(particles) = ParticleLife
    /\ particles[1].life = 1

\* C25: while a debounce timeout is pending or a repeat interval is running
\* at least one direction key is pressed, so the debounce callback always
\* finds a key pressed and starts the repeat interval.
C25_TimersImplyKeyPressed ==
    /\ timers # {} => anyKeyPressed(keyState)
    /\ ev.type = "timeout" =>
          \E t \in timers : t.kind = "interval" /\ t.id = movementInterval

\* the debounce callback has run with a key held and started the interval
C25_Witness ==
    /\ ev.type = "timeout"
    /\ anyKeyPressed(keyState)
    /\ \E t \in timers : t.kind = "interval" /\ t.remaining = RepeatInterval

\* C26: a hover target that is not null is the record the players hold for a
\* player that is still present.
C26_HoverTargetCurrent ==
    hoveredPlayer # <<>> =>
        \E i \in 1..Len(players) : players[i].val = hoveredPlayer[1]

\* C27: every stop command follows a move command sent since the previous
\* stop, or since the channel opened when there is no previous stop.
C27_StopOnlyAfterMove ==
    [][\A i \in 1..Len(sent') :
          IsStop(sent'[i]) =>
              MovedAfter(outbound.moved /\ ev'.type # "open", SubSeq(sent', 1, i - 1))]_vars

\* C28: when the handler of a parsed message throws, the local player id,
\* the players and the avatars are as they were before the message.
C28_HandlerErrorAtomic ==
    [][(ev'.type = "message" /\ ev'.key = "handler_error")
          => UNCHANGED <<myPlayerId, players, avatars>>]_vars

====
